---- MODULE Spec2Model ----
(***************************************************************************)
(* Model of the voice-agent worker: the config loader, the entry           *)
(* orchestration, the NexHealth REST client with its bearer-token cache    *)
(* and the tool layer of the dynamic agent.                                *)
(*                                                                         *)
(* Every async function is cut at its awaits: one action runs the code     *)
(* from one await to the next.  HTTP and data-store answers are inputs     *)
(* drawn from small sets.  Time is the wall clock in minutes; a pending    *)
(* load has its own clock in milliseconds for the timer it races.          *)
(*                                                                         *)
(* Spec runs one conversation, SpecFair adds the scheduling of the load    *)
(* timer, SpecTwo interleaves two conversations and SpecClient calls the   *)
(* operations of one client directly, two calls overlapping.               *)
(***************************************************************************)
EXTENDS Integers, Sequences, FiniteSets, TLC

\* ------------------------------------------------------------------ bounds
MaxTime == 66          \* the clock stops advancing here (minutes)
TickMinutes == 11      \* minutes added by one step of the clock
MaxTokens == 2         \* tokens the PMS hands out in one run
TickMs == 5000         \* milliseconds added by one step of the load's clock

\* --------------------------------------------------------------- constants
NULL == 0              \* null / undefined for ids, tokens and dates
TokenLifetime == 55    \* minutes: 55 * 60 * 1000 ms
TIMEOUT_MS == 10000    \* milliseconds the load is given

\* Each conversation (job) has its own closure of createDynamicAgent: its
\* client, patient id and provider id.  A slot is a tool invocation that may
\* be in flight; slots 1 and 3 belong to conversation 1, slot 2 to
\* conversation 2.  Spec runs conversation 1 with slot 1 alone.
Conv == {1, 2}
Slots == {1, 2, 3}

\* Variant whose tools all work on the state of the first conversation.
FirstConv(s) == 1

\* The conversation whose closure the invocation in slot s works on.
ConvOf(s) == IF s = 2 THEN 2 ELSE 1

\* ----------------------------------------------------------------- strings
\* Strings the code inspects character by character are sequences of
\* one-character strings.
StrClosed == <<"C", "l", "o", "s", "e", "d">>
StrCLOSED == <<"C", "L", "O", "S", "E", "D">>
StrClosedLower == <<"c", "l", "o", "s", "e", "d">>
StrNineToFive == <<"9", "a", "m", "-", "5", "p", "m">>
StrEmpty == <<>>

LowerChar(ch) ==
    CASE ch = "C" -> "c"
      [] ch = "L" -> "l"
      [] ch = "O" -> "o"
      [] ch = "S" -> "s"
      [] ch = "E" -> "e"
      [] ch = "D" -> "d"
      [] ch = "A" -> "a"
      [] ch = "M" -> "m"
      [] ch = "P" -> "p"
      [] OTHER -> ch

ToLowerCase(str) == [i \in 1..Len(str) |-> LowerChar(str[i])]

\* ------------------------------------------------------------- data store
DayNames == <<"sunday", "monday", "tuesday", "wednesday", "thursday", "friday", "saturday">>
DayNameSet == {DayNames[i] : i \in 1..7}

HoursOpenWeek ==
    [d \in DayNameSet |->
        CASE d = "sunday" -> StrCLOSED
          [] d = "saturday" -> StrClosed
          [] d = "friday" -> StrClosedLower
          [] d = "tuesday" -> StrEmpty
          [] OTHER -> StrNineToFive]

HoursNone == [d \in DayNameSet |-> StrEmpty]

\* Rows of the businesses table.
BusinessRows ==
    { [id |-> "bizA", nexhealth_subdomain |-> "acme", operating_hours |-> HoursOpenWeek],
      [id |-> "bizB", nexhealth_subdomain |-> "", operating_hours |-> HoursNone] }

\* Rows of the business_agents table.
AgentRows ==
    { [agent_name |-> "Ava", greeting_text |-> "Hello"],
      [agent_name |-> "Ava", greeting_text |-> ""],
      [agent_name |-> "", greeting_text |-> "Hello"] }

\* What room metadata can carry as businessId ("" when absent or unparsable).
BusinessIds == {"", "bizA", "bizB", "bizX"}

NoBusinesses == <<>>
NoConfig == [id |-> "", agentName |-> "", greeting |-> "", subdomain |-> "", rawHours |-> HoursNone]

\* ------------------------------------------------------------------ state
VARIABLES
    now,               \* wall clock, minutes
    issued,            \* tokens the PMS has handed out; token k is the k-th
    supabase,          \* the data-store client exists (both env vars set)
    nexhealthApiKey,   \* NEXHEALTH_API_KEY is set
    epc,               \* entry: position of each conversation's entry()
    businessId,        \* entry: businessId parsed from room metadata
    lpc,               \* loadBusinessConfig: position
    businesses,        \* loadBusinessConfigInternal: local businesses
    bizError,          \* loadBusinessConfigInternal: local bizError
    config,            \* what loadBusinessConfig resolved to (NoConfig for null)
    loadLog,           \* history: what the lookups of the load answered
    elapsed,           \* milliseconds since loadBusinessConfig armed its timer
    toolLayer,         \* createDynamicAgent has built the agent class of the conversation
    nexhealth,         \* createDynamicAgent: the client was created
    bearerToken,       \* NexHealthClient.bearerToken
    tokenExpiry,       \* NexHealthClient.tokenExpiry
    currentPatientId,  \* createDynamicAgent: currentPatientId
    currentProviderId, \* createDynamicAgent: currentProviderId
    resolved,          \* history: a search or create tool reported success
    pc,                \* tool invocation: position
    inv,               \* tool invocation: tool, arguments and stage
    calls,             \* HTTP calls the invocation has issued, in order
    lastResp,          \* last HTTP answer the invocation received
    opErr,             \* error the last client operation raised
    result,            \* what the invocation returned
    threw,             \* the invocation let an exception escape
    returned           \* what a client operation called directly returned

vars == <<now, issued, supabase, nexhealthApiKey, epc, toolLayer, businessId, lpc, businesses,
          bizError, config, loadLog, elapsed, nexhealth, bearerToken, tokenExpiry, currentPatientId,
          currentProviderId, resolved, pc, inv, calls, lastResp, opErr, result, threw,
          returned>>

envVars == <<supabase, nexhealthApiKey>>
loaderVars == <<businessId, lpc, businesses, bizError, config, loadLog, elapsed>>
clientVars == <<issued, bearerToken, tokenExpiry>>
agentVars == <<nexhealth, currentPatientId, currentProviderId, resolved>>
slotVars == <<pc, inv, calls, lastResp, opErr, result, threw, returned>>

\* ------------------------------------------------------------------- init
\* Nothing logged: "" for an identifier not supplied, a select not issued
\* and a call not ended; a select issued is "asked" until it answers.
NoLog == [id |-> "", byId |-> "", fallback |-> "", agent |-> "", end |-> ""]
NoInv == [tool |-> "", op |-> "", phone |-> FALSE, date |-> 0, badDate |-> FALSE, infoType |-> "",
          patient |-> NULL, provider |-> NULL]
NoResp == [kind |-> "", status |-> 0, body |-> "", shape |-> "", items |-> <<>>]
NoErr == [kind |-> "", status |-> 0, body |-> ""]
NoResult == [text |-> "", day |-> "", hours |-> StrEmpty]

\* The state a run starts in, the clients apart.
InitOther ==
    /\ now = 0
    /\ issued = 0
    /\ supabase \in BOOLEAN
    /\ nexhealthApiKey \in BOOLEAN
    /\ epc = [c \in Conv |-> "connecting"]
    /\ businessId = [c \in Conv |-> ""]
    /\ lpc = [c \in Conv |-> "idle"]
    /\ businesses = [c \in Conv |-> NoBusinesses]
    /\ bizError = [c \in Conv |-> FALSE]
    /\ config = [c \in Conv |-> NoConfig]
    /\ loadLog = [c \in Conv |-> NoLog]
    /\ elapsed = [c \in Conv |-> 0]
    /\ toolLayer = [c \in Conv |-> FALSE]
    /\ bearerToken = [c \in Conv |-> NULL]
    /\ tokenExpiry = [c \in Conv |-> NULL]
    /\ currentPatientId = [c \in Conv |-> NULL]
    /\ currentProviderId = [c \in Conv |-> NULL]
    /\ resolved = [c \in Conv |-> FALSE]
    /\ pc = [s \in Slots |-> "idle"]
    /\ inv = [s \in Slots |-> NoInv]
    /\ calls = [s \in Slots |-> <<>>]
    /\ lastResp = [s \in Slots |-> NoResp]
    /\ opErr = [s \in Slots |-> NoErr]
    /\ result = [s \in Slots |-> NoResult]
    /\ threw = [s \in Slots |-> FALSE]
    /\ returned = [s \in Slots |-> <<>>]

\* No conversation has begun and no client exists.
Init ==
    /\ InitOther
    /\ nexhealth = [c \in Conv |-> FALSE]

\* ------------------------------------------------------------------ clock
\* The load is awaiting the answer of a select.
LoadPending(c) == lpc[c] \in {"byId", "fallback", "agent"}

\* Minutes pass; none can while a load races its timer, which is due within
\* TIMEOUT_MS.
Tick ==
    /\ \A c \in Conv : ~LoadPending(c)
    /\ now + TickMinutes <= MaxTime
    /\ now' = now + TickMinutes
    /\ UNCHANGED <<envVars, epc, toolLayer, loaderVars, clientVars, agentVars, slotVars>>

\* Where entry ends when a step inside its try throws: the catch logs the
\* error and entry returns.
EntryCaught == "failed"

\* Variant that starts the agent with any configuration that was loaded.
ConfigLoaded(cfg) == cfg # NoConfig

\* The configuration was loaded and has an agent name and a greeting.
ConfigUsable(cfg) == cfg # NoConfig /\ cfg.agentName # "" /\ cfg.greeting # ""

\* ---------------------------------------------------------- config loader
\* The catch of loadBusinessConfigInternal returns null.
InternalCatches == TRUE

\* Variant without the catch of loadBusinessConfig: the rejection escapes.
RaceOnRejectEscapes == "rejected"

\* The catch of loadBusinessConfig returns null: the call resolves.
RaceOnReject == "resolved"

\* Where loadBusinessConfig ends when the internal lookup throws.
LpcAfterThrow == IF InternalCatches THEN "resolved" ELSE RaceOnReject

\* Answers of the data store to a select: rows and no error, or no rows and
\* an error.  A lookup by id only returns rows with that id.
RowAnswers(rows) ==
    {[data |-> <<>>, error |-> FALSE], [data |-> <<>>, error |-> TRUE]}
        \cup {[data |-> <<r>>, error |-> FALSE] : r \in rows}

ByIdAnswers(bid) == RowAnswers({r \in BusinessRows : r.id = bid})
FallbackAnswers == RowAnswers(BusinessRows)
AgentAnswers == RowAnswers(AgentRows)

\* Variant that runs the fallback select whatever the select by id found.
AlwaysFallback(rows) == TRUE

\* The select by id found no business: the fallback select is run.
NoneFound(rows) == Len(rows) = 0

\* What the log keeps of an answer: an error, no row, or a row.
Logged(ans) ==
    IF ans.error THEN "error" ELSE IF Len(ans.data) = 0 THEN "empty" ELSE "row"

Logs(c, field, what) == loadLog' = [loadLog EXCEPT ![c][field] = what]

BuildConfig(business, agents) ==
    [id |-> business.id,
     agentName |-> IF Len(agents) > 0 THEN agents[1].agent_name ELSE "",
     greeting |-> IF Len(agents) > 0 THEN agents[1].greeting_text ELSE "",
     subdomain |-> business.nexhealth_subdomain,
     rawHours |-> business.operating_hours]

\* loadBusinessConfig settles: its argument and the locals of the internal
\* lookup are gone.
LoadSettles(c, how, cfg) ==
    /\ lpc' = [lpc EXCEPT ![c] = how]
    /\ businessId' = [businessId EXCEPT ![c] = ""]
    /\ config' = [config EXCEPT ![c] = cfg]
    /\ businesses' = [businesses EXCEPT ![c] = NoBusinesses]
    /\ bizError' = [bizError EXCEPT ![c] = FALSE]
    /\ elapsed' = [elapsed EXCEPT ![c] = 0]

\* entry: ctx.connect() settles; on success the metadata is parsed and
\* loadBusinessConfig runs up to its first await.
Connected(c) ==
    /\ epc[c] = "connecting"
    /\ \E ok \in BOOLEAN, bid \in BusinessIds :
        IF ~ok
        THEN /\ epc' = [epc EXCEPT ![c] = EntryCaught]
             /\ UNCHANGED loaderVars
        ELSE /\ epc' = [epc EXCEPT ![c] = "loading"]
             /\ IF ~supabase
                THEN /\ LoadSettles(c, "resolved", NoConfig)
                     /\ loadLog' = [loadLog EXCEPT ![c] = [NoLog EXCEPT !.id = bid, !.end = "returned"]]
                ELSE /\ businessId' = [businessId EXCEPT ![c] = bid]
                     /\ lpc' = [lpc EXCEPT ![c] = IF bid # "" THEN "byId" ELSE "fallback"]
                     /\ loadLog' = [loadLog EXCEPT ![c] =
                            IF bid # "" THEN [NoLog EXCEPT !.id = bid, !.byId = "asked"]
                            ELSE [NoLog EXCEPT !.fallback = "asked"]]
                     /\ UNCHANGED <<businesses, bizError, config, elapsed>>
    /\ UNCHANGED <<now, envVars, toolLayer, clientVars, agentVars, slotVars>>

\* The select by id answers.
LookupByIdAnswers(c) ==
    /\ lpc[c] = "byId"
    /\ \/ \E ans \in ByIdAnswers(businessId[c]) :
            /\ businesses' = [businesses EXCEPT ![c] = ans.data]
            /\ bizError' = [bizError EXCEPT ![c] = ans.error]
            /\ IF NoneFound(ans.data)
               THEN /\ lpc' = [lpc EXCEPT ![c] = "fallback"]
                    /\ loadLog' = [loadLog EXCEPT ![c].byId = Logged(ans), ![c].fallback = "asked"]
                    /\ UNCHANGED <<businessId, config, elapsed>>
               ELSE IF ans.error
               THEN /\ LoadSettles(c, "resolved", NoConfig)
                    /\ loadLog' = [loadLog EXCEPT ![c].byId = Logged(ans), ![c].end = "returned"]
               ELSE /\ lpc' = [lpc EXCEPT ![c] = "agent"]
                    /\ loadLog' = [loadLog EXCEPT ![c].byId = Logged(ans), ![c].agent = "asked"]
                    /\ UNCHANGED <<businessId, config, elapsed>>
       \/ /\ LoadSettles(c, LpcAfterThrow, NoConfig)
          /\ loadLog' = [loadLog EXCEPT ![c].byId = "threw", ![c].end = "threw"]
    /\ UNCHANGED <<now, envVars, epc, toolLayer, clientVars, agentVars, slotVars>>

\* The select of any business answers.
FallbackAnswersArrives(c) ==
    /\ lpc[c] = "fallback"
    /\ \/ \E ans \in FallbackAnswers :
            IF ans.error \/ Len(ans.data) = 0
            THEN /\ LoadSettles(c, "resolved", NoConfig)
                 /\ loadLog' = [loadLog EXCEPT ![c].fallback = Logged(ans), ![c].end = "returned"]
            ELSE /\ businesses' = [businesses EXCEPT ![c] = ans.data]
                 /\ bizError' = [bizError EXCEPT ![c] = ans.error]
                 /\ lpc' = [lpc EXCEPT ![c] = "agent"]
                 /\ loadLog' = [loadLog EXCEPT ![c].fallback = Logged(ans), ![c].agent = "asked"]
                 /\ UNCHANGED <<businessId, config, elapsed>>
       \/ /\ LoadSettles(c, LpcAfterThrow, NoConfig)
          /\ loadLog' = [loadLog EXCEPT ![c].fallback = "threw", ![c].end = "threw"]
    /\ UNCHANGED <<now, envVars, epc, toolLayer, clientVars, agentVars, slotVars>>

\* The select of the agent settings answers; its error is not looked at.
AgentAnswerArrives(c) ==
    /\ lpc[c] = "agent"
    /\ \/ \E ans \in AgentAnswers :
            /\ LoadSettles(c, "resolved", BuildConfig(businesses[c][1], ans.data))
            /\ loadLog' = [loadLog EXCEPT ![c].agent = Logged(ans), ![c].end = "returned"]
       \/ /\ LoadSettles(c, LpcAfterThrow, NoConfig)
          /\ loadLog' = [loadLog EXCEPT ![c].agent = "threw", ![c].end = "threw"]
    /\ UNCHANGED <<now, envVars, epc, toolLayer, clientVars, agentVars, slotVars>>

\* Variant whose timer is never armed.
TimerNotArmed(ms) == FALSE

\* The timer set for TIMEOUT_MS is due.
TimerDue(ms) == ms >= TIMEOUT_MS

\* Time passes while the race is undecided, up to the moment the timer is
\* set for.
LoadTick(c) ==
    /\ LoadPending(c)
    /\ elapsed[c] < TIMEOUT_MS
    /\ elapsed' = [elapsed EXCEPT ![c] = @ + TickMs]
    /\ UNCHANGED <<now, envVars, epc, toolLayer, businessId, lpc, businesses, bizError, config, loadLog,
                   clientVars, agentVars, slotVars>>

\* The timer wins the race: the race rejects.
Timeout(c) ==
    /\ LoadPending(c)
    /\ TimerDue(elapsed[c])
    /\ LoadSettles(c, RaceOnReject, NoConfig)
    /\ Logs(c, "end", "timeout")
    /\ UNCHANGED <<now, envVars, epc, toolLayer, clientVars, agentVars, slotVars>>

\* ------------------------------------------------------------------ entry
\* entry resumes after loadBusinessConfig: validation, createDynamicAgent,
\* the session is built and session.start is awaited.
EntryResumes(c) ==
    /\ epc[c] = "loading"
    /\ lpc[c] \in {"resolved", "rejected"}
    /\ IF lpc[c] = "rejected"
       THEN /\ epc' = [epc EXCEPT ![c] = EntryCaught]
            /\ UNCHANGED <<toolLayer, agentVars>>
       ELSE IF ~ConfigUsable(config[c])
       THEN /\ epc' = [epc EXCEPT ![c] = "returned"]
            /\ UNCHANGED <<toolLayer, agentVars>>
       ELSE \E built \in BOOLEAN :
            /\ toolLayer' = [toolLayer EXCEPT ![c] = TRUE]
            /\ nexhealth' = [nexhealth EXCEPT ![c] = nexhealthApiKey /\ config[c].subdomain # ""]
            /\ currentPatientId' = [currentPatientId EXCEPT ![c] = NULL]
            /\ currentProviderId' = [currentProviderId EXCEPT ![c] = NULL]
            /\ UNCHANGED resolved
            /\ epc' = [epc EXCEPT ![c] = IF built THEN "starting" ELSE EntryCaught]
    /\ loadLog' = [loadLog EXCEPT ![c] = NoLog]
    /\ UNCHANGED <<now, envVars, businessId, lpc, businesses, bizError, config, elapsed,
                   clientVars, slotVars>>

\* session.start settles; on success session.say is awaited.
SessionStarted(c) ==
    /\ epc[c] = "starting"
    /\ \E ok \in BOOLEAN :
        epc' = [epc EXCEPT ![c] = IF ok THEN "greeting" ELSE EntryCaught]
    /\ UNCHANGED <<now, envVars, toolLayer, loaderVars, clientVars, agentVars, slotVars>>

\* session.say settles.
GreetingSaid(c) ==
    /\ epc[c] = "greeting"
    /\ \E ok \in BOOLEAN :
        epc' = [epc EXCEPT ![c] = IF ok THEN "ready" ELSE "greetFailed"]
    /\ UNCHANGED <<now, envVars, toolLayer, loaderVars, clientVars, agentVars, slotVars>>

\* The agent was handed to a started session: its tools can be invoked.
SessionLive(c) == epc[c] \in {"greeting", "ready", "greetFailed"}


\* ------------------------------------------------------------ REST client
\* Variant with the comparison of the expiry check turned round.
TokenValidReversed(token, expiry, t) == token # NULL /\ expiry # NULL /\ t > expiry

\* authenticate: the cached token is still good.
TokenValid(token, expiry, t) == token # NULL /\ expiry # NULL /\ t < expiry

\* Variant caching the token for the provider's full hour.
TokenExpiryHour(t) == t + 60

\* authenticate: the expiry given to a token obtained at time t.
TokenExpiryAt(t) == t + TokenLifetime

\* response.ok
ResponseOk(resp) == resp.kind = "http" /\ resp.status >= 200 /\ resp.status <= 299

\* Variant that reads data.data.token alone.
ExtractTokenNested(resp) ==
    IF resp.shape = "data.token" THEN resp.items[1] ELSE NULL

\* authenticate: data.data?.token || data.token
ExtractToken(resp) ==
    IF resp.shape \in {"data.token", "token"} THEN resp.items[1] ELSE NULL

\* Variants: an authentication failure reported as a data-request error,
\* and a data-request error that drops the response body.
AuthErrorAsApi(resp) == [kind |-> "NexHealth API error", status |-> resp.status, body |-> resp.body]
ApiErrorNoBody(resp) == [kind |-> "NexHealth API error", status |-> resp.status, body |-> ""]

\* Errors the client throws.
AuthError(resp) == [kind |-> "Authentication failed", status |-> resp.status, body |-> resp.body]
ApiError(resp) == [kind |-> "NexHealth API error", status |-> resp.status, body |-> resp.body]
FetchError == [kind |-> "fetch failed", status |-> 0, body |-> ""]

\* The endpoint each client operation requests.
OpEndpoint(op) ==
    CASE op \in {"searchWithPhone", "searchNameOnly", "searchEmail"} -> "GET /patients"
      [] op = "createPatient" -> "POST /patients"
      [] op = "getProviders" -> "GET /providers"
      [] op = "createAppointment" -> "POST /appointments"
      [] op = "getAppointmentSlots" -> "GET /appointment_slots"
      [] OTHER -> ""

\* searchPatients puts phone in the query only when it is a non-empty string.
OpPhone(i) == i.op = "searchWithPhone" /\ i.phone

\* createAppointment puts the patient and the provider it was given in the
\* body of its request.
OpPatient(i) == IF i.op = "createAppointment" THEN i.patient ELSE NULL
OpProvider(i) == IF i.op = "createAppointment" THEN i.provider ELSE NULL

AuthCall == [ep |-> "POST /authenticates", tok |-> NULL, phone |-> FALSE,
             patient |-> NULL, provider |-> NULL]
\* Variant that sends the data request without the token.
DataCallNoToken(i, token) ==
    [ep |-> OpEndpoint(i.op), tok |-> NULL, phone |-> OpPhone(i),
     patient |-> OpPatient(i), provider |-> OpProvider(i)]

\* request(): the fetch of the operation's endpoint, Bearer token in its
\* Authorization header.
DataCall(i, token) ==
    [ep |-> OpEndpoint(i.op), tok |-> token, phone |-> OpPhone(i),
     patient |-> OpPatient(i), provider |-> OpProvider(i)]

\* Variant of searchPatients that reads the field of the slots answer.
NormalizeWrongField(resp) ==
    IF resp.shape = "array" THEN resp.items
    ELSE IF resp.shape = "slots" THEN resp.items
    ELSE <<>>

\* searchPatients: data when it is an array, else data.patients, else [].
\* The shape of an answer names what data is: "array", an object with the
\* field "patients" or "slots", or an object with neither ("bare").
NormalizePatients(resp) ==
    IF resp.shape = "array" THEN resp.items
    ELSE IF resp.shape = "patients" THEN resp.items
    ELSE <<>>

\* getAppointmentSlots: data when it is an array, else data.slots, else [].
NormalizeSlots(resp) ==
    IF resp.shape = "array" THEN resp.items
    ELSE IF resp.shape = "slots" THEN resp.items
    ELSE <<>>

\* What a client operation returns from a successful answer.
OpValue(op, resp) ==
    CASE op \in {"searchWithPhone", "searchNameOnly", "searchEmail"} -> NormalizePatients(resp)
      [] op = "getAppointmentSlots" -> NormalizeSlots(resp)
      [] OTHER -> resp.items

\* --------------------------------------------------------------- the PMS
FailStatuses == {401, 500}
ErrorBodies == {"denied"}
PatientLists == {<<>>, <<7>>, <<8, 7>>}
ProviderLists == {<<>>, <<5>>, <<6, 5>>}
SlotLists == {<<>>, <<3>>, <<4, 3>>}

HttpFailures ==
    {[kind |-> "http", status |-> st, body |-> b, shape |-> "", items |-> <<>>] :
        st \in FailStatuses, b \in ErrorBodies}
        \cup {[kind |-> "fetch", status |-> 0, body |-> "", shape |-> "", items |-> <<>>]}

Ok(shape, items) == [kind |-> "http", status |-> 200, body |-> "", shape |-> shape, items |-> items]

\* Answers to POST /authenticates: a fresh token while the PMS has some left.
AuthResponses ==
    HttpFailures \cup
        (IF issued < MaxTokens
         THEN {Ok(sh, <<issued + 1>>) : sh \in {"data.token", "token"}}
         ELSE {})

\* Answers to the data request of a client operation.
DataResponses(op) ==
    HttpFailures \cup
        (CASE op \in {"searchWithPhone", "searchNameOnly", "searchEmail"} ->
                {Ok(sh, l) : sh \in {"array", "patients"}, l \in PatientLists}
                    \cup {Ok("bare", <<>>)}
           [] op = "getAppointmentSlots" ->
                {Ok(sh, l) : sh \in {"array", "slots"}, l \in SlotLists}
                    \cup {Ok("bare", <<>>), Ok("patients", <<3>>)}
           [] op = "getProviders" -> {Ok("array", l) : l \in ProviderLists}
           [] op = "createPatient" -> {Ok("object", <<7>>), Ok("object", <<8>>)}
           [] op = "createAppointment" -> {Ok("object", <<9>>)}
           [] OTHER -> {})


\* ------------------------------------------------------------- tool layer
MsgNotConfigured == "Booking system not configured. Please call the office directly."
MsgFound == "Patient record found. Proceed directly to asking for appointment preference. Do not announce the patient's name."
MsgNotFound == "Patient not found in our system. I'll need to collect more information to create a new patient record."
MsgSearchTrouble == "I had trouble searching for the patient. Please try again."
MsgFoundByEmail == "Patient record found. Proceed directly to asking for appointment preference."
MsgEmailNotFound == "I couldn't find a record with that email. Let me create a new record for you."
MsgEmailTrouble == "I had trouble searching. Let me create a new record for you."
MsgCreated == "Great! I've created a patient record for ${firstName} ${lastName}. Now let me check our availability."
MsgCreateTrouble == "I had trouble creating the patient record. Please try again or call the office directly."
MsgClosed == "We are closed on ${searchStartDate} (${dayName}). Please check another day."
MsgOpen == "We are open on ${searchStartDate} (${dayName}) from ${hoursForDay}. You can request any time within these hours."
MsgSlotsTrouble == "I'm having trouble checking availability right now. Please try again."
MsgNeedPatient == "I need to have your patient information first. Can you give me your name and email?"
MsgNoProvider == "I couldn't find an available provider. Please call the office directly."
MsgConfirmed == "Your appointment is confirmed for ${formattedDate} at ${formattedTime}. You'll receive a confirmation email shortly."
MsgBookTrouble == "I'm having trouble booking right now. Please try again or call the office directly."

Text(m) == [text |-> m, day |-> "", hours |-> StrEmpty]

ToolNames == {"searchPatient", "searchPatientByEmail", "createPatient",
              "getAvailableSlots", "bookAppointment", "getPracticeInfo"}

\* Variant without the catch block: the exception escapes the tool.
ToolRethrows(tool) == [result |-> NoResult, threw |-> TRUE]

\* The catch block of each tool's execute: what the invocation ends with
\* when a client operation throws.
ToolCatch(tool) ==
    [result |-> Text(CASE tool = "searchPatient" -> MsgSearchTrouble
                       [] tool = "searchPatientByEmail" -> MsgEmailTrouble
                       [] tool = "createPatient" -> MsgCreateTrouble
                       [] tool = "getAvailableSlots" -> MsgSlotsTrouble
                       [] OTHER -> MsgBookTrouble),
     threw |-> FALSE]

\* Variant without the name-only retry.
NeverFallback(patients) == FALSE

\* searchPatient: the name-only search is tried when the first found nobody.
NeedsFallback(patients) == Len(patients) = 0

\* Variant that takes the last patient of the list.
LastPatient(patients) == patients[Len(patients)]

\* patients[0]?.id of a list that is not empty.
FoundPatient(patients) == patients[1]

\* Variant that takes the last provider of the list.
LastProvider(providers) == providers[Len(providers)]

\* providers[0]?.id of a list that is not empty.
FirstProvider(providers) == providers[1]

\* Variant without the patient check of bookAppointment.
PatientNotChecked(patientId) == FALSE

\* bookAppointment: if (!currentPatientId)
PatientMissing(patientId) == patientId = NULL

\* Date.getDay() of a date given as days since 1970-01-01, a Thursday.
GetDay(date) == (date + 4) % 7

\* getAvailableSlots: days[targetDate.getDay()] || 'monday'
DayNameOf(i) == IF i.badDate THEN "monday" ELSE DayNames[GetDay(i.date) + 1]

\* getAvailableSlots: the message built from the configured hours.
SlotsResult(c, i) ==
    LET dayName == DayNameOf(i)
        hoursForDay == config[c].rawHours[dayName]
    IN  IF hoursForDay = StrEmpty \/ ToLowerCase(hoursForDay) = StrClosedLower
        THEN [text |-> MsgClosed, day |-> dayName, hours |-> StrEmpty]
        ELSE [text |-> MsgOpen, day |-> dayName, hours |-> hoursForDay]

\* getPracticeInfo: info[infoType.toLowerCase()] || JSON.stringify(generalInfo)
InfoTypes == {"hours", "noShowFee", "weather"}
InfoKey(infoType) == IF infoType = "noShowFee" THEN "noshowfee" ELSE infoType
PracticeInfo(infoType) ==
    IF InfoKey(infoType) \in {"hours", "location", "services", "contact", "noshowfee"}
    THEN Text(InfoKey(infoType))
    ELSE Text("JSON.stringify(generalInfo)")

SetSlot(s, p, i, cs, r, e, res, th) ==
    /\ pc' = [pc EXCEPT ![s] = p]
    /\ inv' = [inv EXCEPT ![s] = i]
    /\ calls' = [calls EXCEPT ![s] = cs]
    /\ lastResp' = [lastResp EXCEPT ![s] = r]
    /\ opErr' = [opErr EXCEPT ![s] = e]
    /\ result' = [result EXCEPT ![s] = res]
    /\ threw' = [threw EXCEPT ![s] = th]
    /\ returned' = [returned EXCEPT ![s] = <<>>]

\* The invocation returns res.
Returns(s, i, cs, r, res) == SetSlot(s, "idle", i, cs, r, NoErr, res, FALSE)

\* A client operation threw e: the tool's catch block decides; called
\* directly, the operation hands e to its caller.
Throws(s, i, cs, r, e) ==
    IF i.tool = ""
    THEN SetSlot(s, "idle", i, cs, r, e, NoResult, FALSE)
    ELSE SetSlot(s, "idle", i, cs, r, e, ToolCatch(i.tool).result, ToolCatch(i.tool).threw)

\* A client operation called directly returns v to its caller.
OpReturns(s, i, cs, r, v) ==
    /\ pc' = [pc EXCEPT ![s] = "idle"]
    /\ inv' = [inv EXCEPT ![s] = i]
    /\ calls' = [calls EXCEPT ![s] = cs]
    /\ lastResp' = [lastResp EXCEPT ![s] = r]
    /\ opErr' = [opErr EXCEPT ![s] = NoErr]
    /\ result' = [result EXCEPT ![s] = NoResult]
    /\ threw' = [threw EXCEPT ![s] = FALSE]
    /\ returned' = [returned EXCEPT ![s] = v]

\* request(): the code up to the first await.  With a good cached token
\* the data request goes out, otherwise POST /authenticates does.
Requests(s, i, cs, r) ==
    LET c == ConvOf(s)
        good == TokenValid(bearerToken[c], tokenExpiry[c], now)
    IN  SetSlot(s, IF good THEN "data" ELSE "auth", i,
                Append(cs, IF good THEN DataCall(i, bearerToken[c]) ELSE AuthCall),
                r, NoErr, NoResult, FALSE)

Invocable(s) == pc[s] = "idle" /\ SessionLive(ConvOf(s))
Invocation(tool, op) == [NoInv EXCEPT !.tool = tool, !.op = op]

\* searchPatient.execute is called.
SearchPatient(s) ==
    /\ Invocable(s)
    /\ \E phone \in BOOLEAN :
        LET i == [Invocation("searchPatient", "searchWithPhone") EXCEPT !.phone = phone]
        IN  IF ~nexhealth[ConvOf(s)]
            THEN Returns(s, [i EXCEPT !.op = ""], <<>>, NoResp, Text(MsgNotConfigured))
            ELSE Requests(s, i, <<>>, NoResp)
    /\ UNCHANGED <<now, envVars, epc, toolLayer, loaderVars, clientVars, agentVars>>

\* searchPatientByEmail.execute is called.
SearchPatientByEmail(s) ==
    /\ Invocable(s)
    /\ LET i == Invocation("searchPatientByEmail", "searchEmail")
       IN  IF ~nexhealth[ConvOf(s)]
           THEN Returns(s, [i EXCEPT !.op = ""], <<>>, NoResp, Text(MsgNotConfigured))
           ELSE Requests(s, i, <<>>, NoResp)
    /\ UNCHANGED <<now, envVars, epc, toolLayer, loaderVars, clientVars, agentVars>>

\* createPatient.execute is called.
CreatePatient(s) ==
    /\ Invocable(s)
    /\ LET i == Invocation("createPatient", "createPatient")
       IN  IF ~nexhealth[ConvOf(s)]
           THEN Returns(s, [i EXCEPT !.op = ""], <<>>, NoResp, Text(MsgNotConfigured))
           ELSE Requests(s, i, <<>>, NoResp)
    /\ UNCHANGED <<now, envVars, epc, toolLayer, loaderVars, clientVars, agentVars>>

\* getAvailableSlots.execute is called.
GetAvailableSlots(s) ==
    /\ Invocable(s)
    /\ \E date \in 0..6, bad \in BOOLEAN :
        LET c == ConvOf(s)
            i == [Invocation("getAvailableSlots", "") EXCEPT
                      !.date = IF bad THEN 0 ELSE date, !.badDate = bad]
        IN  IF currentProviderId[c] = NULL /\ nexhealth[c]
            THEN Requests(s, [i EXCEPT !.op = "getProviders"], <<>>, NoResp)
            ELSE Returns(s, i, <<>>, NoResp, SlotsResult(c, i))
    /\ UNCHANGED <<now, envVars, epc, toolLayer, loaderVars, clientVars, agentVars>>

\* bookAppointment.execute is called.
BookAppointment(s) ==
    /\ Invocable(s)
    /\ LET c == ConvOf(s)
           i == Invocation("bookAppointment", "")
       IN  IF ~nexhealth[c]
           THEN Returns(s, i, <<>>, NoResp, Text(MsgNotConfigured))
           ELSE IF PatientMissing(currentPatientId[c])
           THEN Returns(s, i, <<>>, NoResp, Text(MsgNeedPatient))
           ELSE IF currentProviderId[c] = NULL
           THEN Requests(s, [i EXCEPT !.op = "getProviders"], <<>>, NoResp)
           ELSE Requests(s, [i EXCEPT !.op = "createAppointment",
                                      !.patient = currentPatientId[c],
                                      !.provider = currentProviderId[c]], <<>>, NoResp)
    /\ UNCHANGED <<now, envVars, epc, toolLayer, loaderVars, clientVars, agentVars>>

\* getPracticeInfo.execute is called: no client operation, no catch block.
GetPracticeInfo(s) ==
    /\ Invocable(s)
    /\ \E infoType \in InfoTypes :
        Returns(s, [Invocation("getPracticeInfo", "") EXCEPT !.infoType = infoType],
                <<>>, NoResp, PracticeInfo(infoType))
    /\ UNCHANGED <<now, envVars, epc, toolLayer, loaderVars, clientVars, agentVars>>

\* The operations of the client a caller other than the tools may call.
DirectOps == {"searchNameOnly", "getAppointmentSlots"}

\* A caller calls an operation of the client of conversation ConvOf(s).
ClientCall(s) ==
    /\ pc[s] = "idle"
    /\ nexhealth[ConvOf(s)]
    /\ \E op \in DirectOps : Requests(s, Invocation("", op), <<>>, NoResp)
    /\ UNCHANGED <<now, envVars, epc, toolLayer, loaderVars, clientVars, agentVars>>

\* POST /authenticates answers.  On success the token and its expiry are
\* cached and request() sends the data request with the token returned.
AuthAnswers(s) ==
    /\ pc[s] = "auth"
    /\ \E resp \in AuthResponses :
        LET c == ConvOf(s) IN
        IF ResponseOk(resp)
        THEN /\ issued' = issued + 1
             /\ bearerToken' = [bearerToken EXCEPT ![c] = ExtractToken(resp)]
             /\ tokenExpiry' = [tokenExpiry EXCEPT ![c] = TokenExpiryAt(now)]
             /\ SetSlot(s, "data", inv[s],
                        Append(calls[s], DataCall(inv[s], ExtractToken(resp))),
                        resp, NoErr, NoResult, FALSE)
        ELSE /\ Throws(s, inv[s], calls[s], resp,
                       IF resp.kind = "fetch" THEN FetchError ELSE AuthError(resp))
             /\ UNCHANGED clientVars
    /\ UNCHANGED <<now, envVars, epc, toolLayer, loaderVars, agentVars>>

\* The data request of a client operation answers; on success the tool's
\* execute runs on to its next await or to its return.
DataAnswers(s) ==
    /\ pc[s] = "data"
    /\ \E resp \in DataResponses(inv[s].op) :
        LET c == ConvOf(s)
            i == inv[s]
            cs == calls[s]
            patients == NormalizePatients(resp)
            found(msg) ==
                /\ currentPatientId' = [currentPatientId EXCEPT ![c] = FoundPatient(patients)]
                /\ resolved' = [resolved EXCEPT ![c] = TRUE]
                /\ UNCHANGED <<nexhealth, currentProviderId>>
                /\ Returns(s, i, cs, resp, Text(msg))
        IN
        IF ~ResponseOk(resp)
        THEN /\ Throws(s, i, cs, resp,
                       IF resp.kind = "fetch" THEN FetchError ELSE ApiError(resp))
             /\ UNCHANGED agentVars
        ELSE IF i.tool = ""
        THEN /\ OpReturns(s, i, cs, resp, OpValue(i.op, resp))
             /\ UNCHANGED agentVars
        ELSE CASE i.op = "searchWithPhone" ->
                    IF NeedsFallback(patients)
                    THEN /\ Requests(s, [i EXCEPT !.op = "searchNameOnly"], cs, resp)
                         /\ UNCHANGED agentVars
                    ELSE IF Len(patients) > 0
                    THEN found(MsgFound)
                    ELSE /\ Returns(s, i, cs, resp, Text(MsgNotFound))
                         /\ UNCHANGED agentVars
               [] i.op = "searchNameOnly" ->
                    IF Len(patients) > 0
                    THEN found(MsgFound)
                    ELSE /\ Returns(s, i, cs, resp, Text(MsgNotFound))
                         /\ UNCHANGED agentVars
               [] i.op = "searchEmail" ->
                    IF Len(patients) > 0
                    THEN found(MsgFoundByEmail)
                    ELSE /\ Returns(s, i, cs, resp, Text(MsgEmailNotFound))
                         /\ UNCHANGED agentVars
               [] i.op = "createPatient" ->
                    /\ currentPatientId' = [currentPatientId EXCEPT ![c] = resp.items[1]]
                    /\ resolved' = [resolved EXCEPT ![c] = TRUE]
                    /\ UNCHANGED <<nexhealth, currentProviderId>>
                    /\ Returns(s, i, cs, resp, Text(MsgCreated))
               [] i.op = "getProviders" /\ i.tool = "getAvailableSlots" ->
                    /\ currentProviderId' = [currentProviderId EXCEPT ![c] =
                            IF Len(resp.items) > 0 THEN FirstProvider(resp.items) ELSE @]
                    /\ UNCHANGED <<nexhealth, currentPatientId, resolved>>
                    /\ Returns(s, i, cs, resp, SlotsResult(c, i))
               [] i.op = "getProviders" /\ i.tool = "bookAppointment" ->
                    IF Len(resp.items) > 0
                    THEN /\ currentProviderId' = [currentProviderId EXCEPT ![c] =
                                                        FirstProvider(resp.items)]
                         /\ UNCHANGED <<nexhealth, currentPatientId, resolved>>
                         /\ Requests(s, [i EXCEPT !.op = "createAppointment",
                                                    !.patient = currentPatientId[c],
                                                    !.provider = FirstProvider(resp.items)],
                                     cs, resp)
                    ELSE /\ Returns(s, i, cs, resp, Text(MsgNoProvider))
                         /\ UNCHANGED agentVars
               [] i.op = "createAppointment" ->
                    /\ Returns(s, i, cs, resp, Text(MsgConfirmed))
                    /\ UNCHANGED agentVars
    /\ UNCHANGED <<now, envVars, epc, toolLayer, loaderVars, clientVars>>

\* ------------------------------------------------------------------- next
EntryStep(c) ==
    \/ Connected(c)
    \/ LookupByIdAnswers(c)
    \/ FallbackAnswersArrives(c)
    \/ AgentAnswerArrives(c)
    \/ LoadTick(c)
    \/ Timeout(c)
    \/ EntryResumes(c)
    \/ SessionStarted(c)
    \/ GreetingSaid(c)

ToolStep(s) ==
    \/ SearchPatient(s)
    \/ SearchPatientByEmail(s)
    \/ CreatePatient(s)
    \/ GetAvailableSlots(s)
    \/ BookAppointment(s)
    \/ GetPracticeInfo(s)
    \/ AuthAnswers(s)
    \/ DataAnswers(s)

\* One conversation, its tools invoked one after the other.
Next == Tick \/ EntryStep(1) \/ ToolStep(1)

Spec == Init /\ [][Next]_vars

\* The event loop runs a timer that is due, and time does not stand still
\* while a load is pending.
\* The client on its own: built as createDynamicAgent builds it, its
\* operations called by callers that may overlap.
InitClient ==
    /\ InitOther
    /\ supabase /\ nexhealthApiKey
    /\ nexhealth = [c \in Conv |-> c = 1]

ClientStep(s) == ClientCall(s) \/ AuthAnswers(s) \/ DataAnswers(s)

NextClient == Tick \/ ClientStep(1) \/ ClientStep(3)

SpecClient == InitClient /\ [][NextClient]_vars

\* Two conversations of one worker, each with the tools that write the
\* patient id, the provider id and the token cache; both sets of
\* credentials are configured.  The clock of the tokens stands still.
InitTwo ==
    /\ Init
    /\ supabase /\ nexhealthApiKey

SessionToolStep(s) ==
    \/ SearchPatientByEmail(s)
    \/ BookAppointment(s)
    \/ AuthAnswers(s)
    \/ DataAnswers(s)

\* entry up to the start of the session; the greeting stays in progress.
SessionEntryStep(c) ==
    \/ Connected(c)
    \/ LookupByIdAnswers(c)
    \/ FallbackAnswersArrives(c)
    \/ AgentAnswerArrives(c)
    \/ LoadTick(c)
    \/ Timeout(c)
    \/ EntryResumes(c)
    \/ SessionStarted(c)

NextTwo == \E c \in Conv : SessionEntryStep(c) \/ SessionToolStep(c)

SpecTwo == InitTwo /\ [][NextTwo]_vars

SpecFair == Spec /\ WF_vars(LoadTick(1)) /\ WF_vars(Timeout(1))


\* ----------------------------------------------------------------- claims
Last(seq) == seq[Len(seq)]
Completed(s) == pc[s] = "idle" /\ inv[s].tool # ""

\* Steps of a tool invocation, told from the positions before and after.
IssuesAuth(s) == pc'[s] = "auth" /\ pc[s] # "auth"
IssuesData(s) == pc'[s] = "data" /\ (pc[s] # "data" \/ calls'[s] # calls[s])
FromAuth(s) == pc[s] = "auth" /\ pc'[s] # "auth"
FromData(s) == pc[s] = "data" /\ (pc'[s] # "data" \/ calls'[s] # calls[s])

\* C1: while a token is cached and now < tokenExpiry, no operation of the
\* client sends POST /authenticates: the operations that follow one
\* successful authentication add no authentication call.
C1_TokenReuse ==
    [][\A s \in Slots :
        IssuesAuth(s) =>
            ~(bearerToken[ConvOf(s)] # NULL /\ now < tokenExpiry[ConvOf(s)])]_vars

\* C1 witness: an invocation ran a client operation on the cached token:
\* its log holds data requests and no authentication.
C1_Witness ==
    /\ Completed(1)
    /\ calls[1] # <<>>
    /\ \A k \in 1..Len(calls[1]) : calls[1][k].tok = bearerToken[1]
    /\ now < tokenExpiry[1]

\* C2: a token expires 55 minutes after the authentication that produced
\* it completed; a data request goes out with the token now cached and
\* before its expiry; when the cached token had expired, the request
\* follows exactly one POST /authenticates and carries the new token.
C2_TokenExpiry ==
    [][\A s \in Slots :
        LET c == ConvOf(s)
            stale == bearerToken[c] # NULL /\ now >= tokenExpiry[c]
        IN  /\ bearerToken'[c] # bearerToken[c] => tokenExpiry'[c] = now' + 55
            /\ (stale /\ pc[s] \in {"idle", "data"} /\ pc'[s] \in {"auth", "data"}
                    /\ calls'[s] # calls[s])
                 => IssuesAuth(s)
            /\ IssuesData(s) =>
                 /\ Last(calls'[s]).tok = bearerToken'[c]
                 /\ Last(calls'[s]).tok # NULL
                 /\ now' < tokenExpiry'[c]
                 /\ stale =>
                      /\ pc[s] = "auth"
                      /\ Last(calls'[s]).tok # bearerToken[c]
                      /\ Len(calls'[s]) >= 2
                      /\ calls'[s][Len(calls'[s]) - 1] = AuthCall
                      /\ Len(calls'[s]) >= 3 => calls'[s][Len(calls'[s]) - 2] # AuthCall]_vars

\* C2 witness: after the first token expired, a data request went out
\* right after a re-authentication, with the second token.
C2_Witness ==
    /\ bearerToken[1] = 2
    /\ now >= 55
    /\ Len(calls[1]) >= 2
    /\ Last(calls[1]).tok = 2
    /\ calls[1][Len(calls[1]) - 1] = AuthCall

\* C3 as claimed: bookAppointment invoked before any search or create of
\* the conversation succeeded returns the "need patient information"
\* message and sends nothing to the appointment-creation endpoint.
C3_Original ==
    \A s \in Slots :
        (Completed(s) /\ inv[s].tool = "bookAppointment" /\ ~resolved[ConvOf(s)]) =>
            /\ result[s] = Text(MsgNeedPatient)
            /\ \A k \in 1..Len(calls[s]) : calls[s][k].ep # "POST /appointments"

\* C3 amended: such a bookAppointment returns the "need patient
\* information" message when the PMS client is configured and the "booking
\* system not configured" message when it is not; either way it sends no
\* HTTP request at all.
C3_BookingPrecondition ==
    \A s \in Slots :
        (Completed(s) /\ inv[s].tool = "bookAppointment" /\ ~resolved[ConvOf(s)]) =>
            /\ result[s] = Text(IF nexhealth[ConvOf(s)] THEN MsgNeedPatient ELSE MsgNotConfigured)
            /\ calls[s] = <<>>

\* C3 witness: bookAppointment came back with the corrective message in a
\* conversation with a configured client and no patient resolved.
C3_Witness ==
    /\ Completed(1)
    /\ inv[1].tool = "bookAppointment"
    /\ nexhealth[1]
    /\ ~resolved[1]
    /\ result[1] = Text(MsgNeedPatient)

\* The GET /patients requests of a log, in order.
Searches(cs) == SelectSeq(cs, LAMBDA call : call.ep = "GET /patients")

\* C4: in searchPatient, a first search that finds nobody is followed by a
\* second search without phone (after a re-authentication if the token has
\* expired meanwhile), and "not found" is only reported after that second
\* search; a first search that finds somebody ends the invocation with no
\* further request.
C4_SearchFallback ==
    [][\A s \in Slots :
        LET first == FromData(s) /\ inv[s].op = "searchWithPhone" /\ ResponseOk(lastResp'[s])
            n == Len(NormalizePatients(lastResp'[s]))
        IN  /\ (first /\ n >= 1) =>
                 /\ pc'[s] = "idle"
                 /\ calls'[s] = calls[s]
                 /\ result'[s] = Text(MsgFound)
            /\ (first /\ n = 0) =>
                 /\ pc'[s] \in {"auth", "data"}
                 /\ inv'[s].op = "searchNameOnly"
                 /\ result'[s] # Text(MsgNotFound)
                 /\ IssuesData(s) =>
                      /\ Last(calls'[s]).ep = "GET /patients"
                      /\ ~Last(calls'[s]).phone
            /\ result'[s] = Text(MsgNotFound) =>
                 /\ Len(Searches(calls'[s])) = 2
                 /\ Searches(calls'[s])[1].phone = inv'[s].phone
                 /\ ~Searches(calls'[s])[2].phone]_vars

\* C4 witness: "not found" was reported after a search with phone and a
\* search without it.
C4_Witness ==
    /\ Completed(1)
    /\ result[1] = Text(MsgNotFound)
    /\ Len(Searches(calls[1])) = 2
    /\ Searches(calls[1])[1].phone
    /\ ~Searches(calls[1])[2].phone

\* C5: no tool invocation lets an exception escape; every invocation that
\* has ended, whatever the PMS answered, returned a message.
C5_ToolsNeverThrow ==
    \A s \in Slots :
        /\ ~threw[s]
        /\ Completed(s) => result[s].text # ""

\* C5 witness: a tool whose client operation failed on authentication
\* returned its fallback message.
C5_Witness ==
    /\ Completed(1)
    /\ opErr[1].kind = "Authentication failed"
    /\ result[1] = Text(MsgBookTrouble)
    /\ ~threw[1]


\* The weekday a getAvailableSlots invocation asks about, for a valid date.
RequestedDay(i) == DayNames[((i.date + 4) % 7) + 1]

\* C6 as claimed: when the configured hours of the requested weekday read
\* "closed" in any letter case, getAvailableSlots returns the closed
\* message for that day and no hours range.
C6_ClosedDay ==
    \A s \in Slots :
        LET c == ConvOf(s)
            hours == config[c].rawHours[RequestedDay(inv[s])]
        IN  (Completed(s) /\ inv[s].tool = "getAvailableSlots" /\ ~inv[s].badDate
                /\ hours \in {StrClosed, StrCLOSED, StrClosedLower}) =>
                /\ result[s].text = MsgClosed
                /\ result[s].day = RequestedDay(inv[s])
                /\ result[s].hours = StrEmpty

\* C7 as claimed: getAvailableSlots never requests the appointment-slots
\* endpoint and, for a day whose configured hours are present and not
\* closed, returns those hours whatever the PMS answers.
C7_HoursFromConfig ==
    \A s \in Slots :
        LET c == ConvOf(s)
            hours == config[c].rawHours[RequestedDay(inv[s])]
        IN  inv[s].tool = "getAvailableSlots" =>
                /\ \A k \in 1..Len(calls[s]) : calls[s][k].ep # "GET /appointment_slots"
                /\ (Completed(s) /\ ~inv[s].badDate /\ hours = StrNineToFive) =>
                        /\ result[s].text = MsgOpen
                        /\ result[s].day = RequestedDay(inv[s])
                        /\ result[s].hours = hours

\* C8 as claimed: every client operation sends exactly one data request,
\* and one answered with a non-success status raises an error with the
\* status and the body.
C8_Original ==
    \A s \in Slots :
        (Completed(s) /\ inv[s].op # "") =>
            /\ Last(calls[s]).ep = OpEndpoint(inv[s].op)
            /\ (Last(calls[s]).ep = OpEndpoint(inv[s].op)
                    /\ lastResp[s].kind = "http" /\ ~ResponseOk(lastResp[s])) =>
                    opErr[s] = [kind |-> "NexHealth API error",
                                status |-> lastResp[s].status, body |-> lastResp[s].body]

\* C8 amended: a client operation sends at most one data request: exactly
\* one when it needs no authentication or its authentication succeeds,
\* none when its authentication fails.  A data request answered with a
\* non-success status ends the operation with an error carrying the
\* status and the body, and no further request is sent for it.
C8_OneDataCall ==
    [][\A s \in Slots :
        /\ FromAuth(s) =>
             IF ResponseOk(lastResp'[s])
             THEN /\ pc'[s] = "data"
                  /\ calls'[s] = Append(calls[s], Last(calls'[s]))
                  /\ Last(calls'[s]).ep = OpEndpoint(inv[s].op)
                  /\ inv'[s] = inv[s]
             ELSE /\ pc'[s] = "idle"
                  /\ calls'[s] = calls[s]
        /\ (pc[s] = "idle" /\ pc'[s] = "data") =>
             /\ Len(calls'[s]) = 1
             /\ calls'[s][1].ep = OpEndpoint(inv'[s].op)
        /\ (FromData(s) /\ pc'[s] # "idle") =>
             /\ inv'[s].op # inv[s].op
             /\ ResponseOk(lastResp'[s])
             /\ calls'[s] = Append(calls[s], Last(calls'[s]))
        /\ (FromData(s) /\ lastResp'[s].kind = "http" /\ ~ResponseOk(lastResp'[s])) =>
             /\ pc'[s] = "idle"
             /\ calls'[s] = calls[s]
             /\ opErr'[s] = [kind |-> "NexHealth API error",
                             status |-> lastResp'[s].status, body |-> lastResp'[s].body]]_vars

\* C8 witness: a data request was answered 500 and the operation ended
\* with the error of that answer, the request being the last one sent.
C8_Witness ==
    /\ Completed(1)
    /\ lastResp[1].status = 500
    /\ Last(calls[1]).ep = "POST /appointments"
    /\ opErr[1] = [kind |-> "NexHealth API error", status |-> 500, body |-> "denied"]

\* C9: when POST /authenticates is answered with a non-success status the
\* operation ends at once with an authentication error, which is not the
\* error of a data request, and sends no data request; every data request
\* ever sent carries a token a successful authentication returned.
C9_AuthFailure ==
    [][\A s \in Slots :
        /\ (FromAuth(s) /\ lastResp'[s].kind = "http" /\ ~ResponseOk(lastResp'[s])) =>
             /\ pc'[s] = "idle"
             /\ calls'[s] = calls[s]
             /\ opErr'[s].kind = "Authentication failed"
             /\ opErr'[s].kind # ApiError(lastResp'[s]).kind
             /\ opErr'[s].status = lastResp'[s].status
        /\ \A k \in 1..Len(calls'[s]) :
             calls'[s][k].ep # "POST /authenticates" => calls'[s][k].tok \in 1..issued']_vars

\* C9 witness: an invocation ended on a refused authentication, the
\* authentication being the only request it sent.
C9_Witness ==
    /\ Completed(1)
    /\ calls[1] = <<AuthCall>>
    /\ lastResp[1].status = 401
    /\ opErr[1].kind = "Authentication failed"

\* C10: loadBusinessConfig never rejects: it resolves to null or to a
\* configuration built from a business row; without data-store
\* credentials it resolves to null whatever the tenant identifier.
C10_LoadNeverThrows ==
    \A c \in Conv :
        /\ lpc[c] # "rejected"
        /\ lpc[c] = "resolved" =>
                config[c] = NoConfig \/ config[c].id \in {r.id : r \in BusinessRows}
        /\ ~supabase => (lpc[c] \in {"idle", "resolved"} /\ config[c] = NoConfig)

\* C10 witness: without credentials the load resolved to null and entry
\* returned.
C10_Witness ==
    /\ ~supabase
    /\ lpc[1] = "resolved"
    /\ config[1] = NoConfig
    /\ epc[1] = "returned"

\* C11: whenever a lookup of a load (the select by id or the select of any
\* business) reported an error, loadBusinessConfig resolved to null.
C11_LookupErrorGivesNull ==
    \A c \in Conv :
        (lpc[c] = "resolved" /\ "error" \in {loadLog[c].byId, loadLog[c].fallback})
            => config[c] = NoConfig

\* C12: loadBusinessConfig races the lookup against a timer of TIMEOUT_MS:
\* the timer ends a load only once TIMEOUT_MS have passed with the lookup
\* still unanswered, the load then resolves to null, and every load that is
\* pending eventually resolves, whether or not the data store answers.
C12_LoadTerminates ==
    /\ [][\A c \in Conv :
            (loadLog'[c].end = "timeout" /\ loadLog[c].end # "timeout")
                => /\ LoadPending(c)
                   /\ elapsed[c] >= TIMEOUT_MS
                   /\ lpc'[c] = "resolved"
                   /\ config'[c] = NoConfig]_vars
    /\ \A c \in Conv : LoadPending(c) ~> (lpc[c] = "resolved")

\* C12 witness: the data store answered none of the selects of a load and
\* the timer resolved the load to null.
C12_Witness ==
    /\ lpc[1] = "resolved"
    /\ loadLog[1] = [NoLog EXCEPT !.id = "bizA", !.byId = "asked", !.end = "timeout"]
    /\ config[1] = NoConfig

\* A load has begun and its log is still kept.
LoadLogged(c) == LoadPending(c) \/ loadLog[c].end # ""

\* The load ended and entry has not yet taken its result.
LoadEnded(c) == lpc[c] = "resolved" /\ loadLog[c].end # ""

NoRecord == {"empty", "error"}

\* C13 as claimed: the select by id comes first; when an identifier was
\* supplied and a row matches, no fallback select is issued and the
\* configuration is that row's; otherwise the fallback select is issued,
\* and null is returned only when it yields no row.
C13_Original ==
    \A c \in Conv :
        LET L == loadLog[c] IN
        /\ (L.byId = "row" /\ LoadEnded(c))
                => (L.fallback = "" /\ (config[c] # NoConfig => config[c].id = L.id))
        /\ (LoadLogged(c) /\ supabase /\ (L.id = "" \/ L.byId \in NoRecord))
                => L.fallback # ""
        /\ (LoadEnded(c) /\ supabase /\ L.fallback # "" /\ config[c] = NoConfig)
                => L.fallback # "row"

\* C13: with data-store credentials, the select by id is issued exactly
\* when an identifier was supplied, and before any fallback select; when
\* it finds a row no fallback select is issued and a configuration
\* returned is that row's; when it finds none, or no identifier was
\* supplied, the fallback select is issued; a load that returned normally
\* gives null exactly when the last select of businesses yielded no row;
\* a load ended by the timer or by a thrown error gives null.
C13_FallbackLogic ==
    \A c \in Conv :
        LET L == loadLog[c] IN
        /\ (L.byId # "") <=> (L.id # "" /\ supabase /\ LoadLogged(c))
        /\ L.fallback # "" => (L.byId \in NoRecord \/ (L.id = "" /\ L.byId = ""))
        /\ L.byId = "row" => L.fallback = ""
        /\ (L.byId = "row" /\ LoadEnded(c) /\ config[c] # NoConfig) => config[c].id = L.id
        /\ (LoadLogged(c) /\ supabase /\ (L.id = "" \/ L.byId \in NoRecord)) => L.fallback # ""
        /\ (LoadEnded(c) /\ L.end = "returned" /\ supabase)
                => (config[c] = NoConfig <=> (L.byId # "row" /\ L.fallback \in NoRecord))
        /\ (LoadEnded(c) /\ L.end # "returned") => config[c] = NoConfig
        /\ (LoadEnded(c) /\ ~supabase) => (config[c] = NoConfig /\ L.fallback = "" /\ L.byId = "")

\* C13 witness: an identifier was supplied, the select by id found no row,
\* the fallback select found a business and its configuration was returned.
C13_Witness ==
    /\ LoadEnded(1)
    /\ loadLog[1].id = "bizX"
    /\ loadLog[1].byId = "empty"
    /\ loadLog[1].fallback = "row"
    /\ config[1].id = "bizB"

\* epc of conversation c moves to a value of set S in this step.
Enters(c, S) == epc'[c] \in S /\ epc[c] \notin S

\* C14: session.start is called only after the channel connected, the load
\* resolved to a configuration with an agent name and a greeting, and the
\* agent class was built; the greeting is spoken only after session.start
\* succeeded; when the configuration is null or lacks the name or the
\* greeting, entry returns without building the agent class, starting a
\* session or speaking, and stays returned; entry lets no exception out.
C14_EntryOrdering ==
    /\ [](\A c \in Conv :
            /\ epc[c] # "threw"
            /\ epc[c] \in {"starting", "greeting", "ready", "greetFailed"}
                    => (toolLayer[c] /\ lpc[c] = "resolved" /\ ConfigUsable(config[c])
                        /\ config[c].agentName # "" /\ config[c].greeting # "")
            /\ toolLayer[c] => (config[c] # NoConfig /\ epc[c] \notin {"connecting", "loading", "returned"})
            /\ epc[c] = "returned"
                    => (config[c] = NoConfig \/ config[c].agentName = "" \/ config[c].greeting = ""))
    /\ [][\A c \in Conv :
            /\ Enters(c, {"loading"}) => epc[c] = "connecting"
            /\ Enters(c, {"starting"}) => (epc[c] = "loading" /\ lpc[c] = "resolved")
            /\ Enters(c, {"greeting"}) => epc[c] = "starting"
            /\ Enters(c, {"ready", "greetFailed"}) => epc[c] = "greeting"
            /\ epc[c] \in {"returned", "failed"}
                    => (epc'[c] = epc[c] /\ toolLayer'[c] = toolLayer[c])]_vars

\* C14 witness: the greeting was spoken in a session that was started for a
\* loaded configuration.
C14_Witness ==
    /\ epc[1] = "ready"
    /\ toolLayer[1]
    /\ config[1].id = "bizA"
    /\ config[1].greeting # ""

\* A client operation called directly has returned a value.
Returned(s, op) ==
    pc[s] = "idle" /\ inv[s].tool = "" /\ inv[s].op = op /\ opErr[s] = NoErr

\* C15: searchPatients returns the sequence held by the answer whether data
\* is the array itself or an object holding it under "patients", and
\* getAppointmentSlots likewise for "slots": the two shapes give the same
\* value; an object without the field gives the empty sequence.
C15_Normalization ==
    \A s \in Slots :
        LET r == lastResp[s] IN
        /\ Returned(s, "searchNameOnly") =>
                returned[s] = IF r.shape \in {"array", "patients"} THEN r.items ELSE <<>>
        /\ Returned(s, "getAppointmentSlots") =>
                returned[s] = IF r.shape \in {"array", "slots"} THEN r.items ELSE <<>>

\* C15 witness: getAppointmentSlots returned the two slots that the answer
\* held under data.slots.
C15_Witness ==
    /\ Returned(1, "getAppointmentSlots")
    /\ lastResp[1].shape = "slots"
    /\ returned[1] = <<4, 3>>

\* The calls of log cs that went to endpoint ep.
CallsTo(cs, ep) == {k \in 1..Len(cs) : cs[k].ep = ep}

\* C16: bookAppointment called with a patient id and no provider id asks
\* for the provider list before it creates the appointment, caches the
\* first provider of the list and books with it; when the list is empty it
\* returns the no-provider message and sends no POST /appointments; called
\* with a provider id cached it books with that provider and sends no
\* GET /providers.
C16_LazyProvider ==
    /\ [](\A s \in Slots :
            inv[s].tool = "bookAppointment" =>
                LET cs == calls[s]
                    c == ConvOf(s)
                IN  /\ \A k \in CallsTo(cs, "POST /appointments"), j \in CallsTo(cs, "GET /providers") :
                            j < k
                    /\ \A k \in CallsTo(cs, "POST /appointments") :
                            /\ cs[k].provider # NULL
                            /\ cs[k].provider = currentProviderId[c]
                            /\ cs[k].patient = currentPatientId[c]
                    /\ result[s] = Text(MsgNoProvider) =>
                            /\ CallsTo(cs, "POST /appointments") = {}
                            /\ Last(cs).ep = "GET /providers"
                            /\ lastResp[s].items = <<>>
                            /\ currentProviderId[c] = NULL)
    /\ [][\A s \in Slots :
            LET c == ConvOf(s) IN
            /\ (pc[s] = "idle" /\ pc'[s] # "idle" /\ inv'[s].tool = "bookAppointment")
                    => /\ currentPatientId[c] # NULL
                       /\ inv'[s].op = IF currentProviderId[c] = NULL
                                       THEN "getProviders" ELSE "createAppointment"
            /\ (inv[s].tool = "bookAppointment" /\ inv[s].op = "createAppointment"
                    /\ pc[s] # "idle")
                    => (inv'[s].op = "createAppointment" /\ inv'[s].provider = inv[s].provider)
            /\ (FromData(s) /\ inv[s].tool = "bookAppointment" /\ inv[s].op = "getProviders"
                    /\ ResponseOk(lastResp'[s]) /\ lastResp'[s].items # <<>>)
                    => /\ currentProviderId'[c] = lastResp'[s].items[1]
                       /\ inv'[s].op = "createAppointment"
                       /\ inv'[s].provider = lastResp'[s].items[1]
                       /\ pc'[s] \in {"auth", "data"}]_vars

\* C16 witness: a booking that began without a provider took the first of
\* the two providers listed and was confirmed.
C16_Witness ==
    /\ Completed(1)
    /\ inv[1].tool = "bookAppointment"
    /\ result[1] = Text(MsgConfirmed)
    /\ CallsTo(calls[1], "GET /providers") # {}
    /\ Last(calls[1]).ep = "POST /appointments"
    /\ Last(calls[1]).provider = 6
    /\ currentProviderId[1] = 6

\* The state of conversation c that its tools read and write.
SessionState(c) ==
    <<currentPatientId[c], currentProviderId[c], bearerToken[c], tokenExpiry[c], nexhealth[c]>>

\* The invocation in slot s moved in this step.
SlotMoves(s) == <<pc[s], inv[s], calls[s], lastResp[s], result[s]>>'
                    # <<pc[s], inv[s], calls[s], lastResp[s], result[s]>>

\* C17: createDynamicAgent gives every conversation a patient id and a
\* provider id that are null and a client without a token; and a step of
\* a tool invocation of one conversation, or of its entry, leaves the
\* patient id, the provider id and the token cache of the other
\* conversation as they were, however the two conversations interleave.
C17_SessionIsolation ==
    /\ [](\A c \in Conv : ~toolLayer[c] => SessionState(c) = <<NULL, NULL, NULL, NULL, FALSE>>)
    /\ [][\A c \in Conv :
            (toolLayer'[c] /\ ~toolLayer[c])
                => (currentPatientId'[c] = NULL /\ currentProviderId'[c] = NULL
                    /\ bearerToken'[c] = NULL /\ tokenExpiry'[c] = NULL)]_vars
    /\ [][(SlotMoves(1) \/ epc'[1] # epc[1] \/ lpc'[1] # lpc[1])
                => SessionState(2)' = SessionState(2)]_vars
    /\ [][(SlotMoves(2) \/ epc'[2] # epc[2] \/ lpc'[2] # lpc[2])
                => SessionState(1)' = SessionState(1)]_vars

\* C17 witness: the two conversations hold different patients and
\* different tokens, and the second has a provider while the first has none.
C17_Witness ==
    /\ currentPatientId[1] = 7
    /\ currentPatientId[2] = 8
    /\ bearerToken[1] = 2
    /\ bearerToken[2] = 1
    /\ currentProviderId[1] = NULL
    /\ currentProviderId[2] = 6

\* C18 as claimed: two operations on one client never have an
\* authentication call each in flight: the second waits for the first's.
C18_Original == ~(pc[1] = "auth" /\ pc[3] = "auth")

\* C18: authentication is per operation, not single-flight.  An operation
\* sends POST /authenticates exactly when the cache holds no valid token
\* as it starts, at most once, whether or not another operation on the
\* client has an authentication in flight; on success it caches the token
\* it was given and sends its data request with that same token.
C18_AuthPerOperation ==
    /\ [](\A s \in {1, 3} : Cardinality(CallsTo(calls[s], "POST /authenticates")) <= 1)
    /\ [][\A s \in {1, 3} :
            /\ (pc[s] = "idle" /\ pc'[s] # "idle")
                    => (pc'[s] = "auth" <=>
                            ~(bearerToken[1] # NULL /\ tokenExpiry[1] # NULL
                              /\ now < tokenExpiry[1]))
            /\ (FromAuth(s) /\ ResponseOk(lastResp'[s]))
                    => /\ pc'[s] = "data"
                       /\ Last(calls'[s]).ep = OpEndpoint(inv[s].op)
                       /\ Last(calls'[s]).tok = lastResp'[s].items[1]
                       /\ bearerToken'[1] = lastResp'[s].items[1]]_vars

\* C18 witness: two overlapping operations each authenticated and each
\* sent its data request with its own token; the cache holds the later one.
C18_Witness ==
    /\ pc[1] = "data" /\ pc[3] = "data"
    /\ calls[1][1] = AuthCall /\ calls[3][1] = AuthCall
    /\ Last(calls[1]).tok = 1
    /\ Last(calls[3]).tok = 2
    /\ bearerToken[1] = 2

PatientTools == {"searchPatient", "searchPatientByEmail", "createPatient"}
PatientSetTexts == {MsgFound, MsgFoundByEmail, MsgCreated}

\* C19: the patient id of a conversation changes only in the step in which
\* searchPatient, searchPatientByEmail or createPatient receives a
\* successful answer holding a patient, and then to the id of the first
\* patient of the answer; every other step leaves it, so an invocation
\* that ends with any other message (not found, trouble, any booking,
\* slots or practice-info answer) has not changed it, and a booking sends
\* the patient id then in effect.
C19_PatientIdFrame ==
    [][\A c \in Conv :
        /\ currentPatientId'[c] # currentPatientId[c]
                => \E s \in Slots :
                    /\ ConvOf(s) = c
                    /\ FromData(s)
                    /\ inv[s].tool \in PatientTools
                    /\ ResponseOk(lastResp'[s])
                    /\ lastResp'[s].shape \in {"array", "patients", "object"}
                    /\ lastResp'[s].items # <<>>
                    /\ currentPatientId'[c] = lastResp'[s].items[1]
                    /\ pc'[s] = "idle"
                    /\ result'[s].text \in PatientSetTexts
        /\ \A s \in Slots :
                (ConvOf(s) = c /\ (pc[s] # pc'[s] \/ inv[s] # inv'[s] \/ result[s] # result'[s])
                    /\ ~(pc'[s] = "idle" /\ result'[s].text \in PatientSetTexts))
                    => currentPatientId'[c] = currentPatientId[c]
        /\ \A s \in Slots :
                (ConvOf(s) = c /\ IssuesData(s) /\ inv'[s].op = "createAppointment")
                    => (Last(calls'[s]).patient = currentPatientId[c]
                        /\ currentPatientId[c] # NULL)]_vars

\* C19 witness: a patient was resolved earlier in the conversation and a
\* later search that found nobody left the id in place.
C19_Witness ==
    /\ Completed(1)
    /\ inv[1].tool = "searchPatientByEmail"
    /\ result[1] = Text(MsgEmailNotFound)
    /\ currentPatientId[1] = 8

\* The token cache of conversation c.
TokenCache(c) == <<bearerToken[c], tokenExpiry[c]>>

\* C20: bearerToken and tokenExpiry change only in the step in which an
\* authentication call of the client answers with success, and then to the
\* token of the answer and to TokenLifetime from now; a failed
\* authentication and the answer of a data request, failed or not, leave
\* both; so once an operation has ended on a failed authentication the
\* cache holds no valid token and the next operation authenticates, and an
\* operation that starts while the cached token is valid, a failed data
\* request before it or not, sends its data request with that token.
C20_TokenCacheFrame ==
    /\ [](\A s \in Slots :
            (pc[s] = "idle" /\ opErr[s].kind = "Authentication failed")
                => ~(bearerToken[ConvOf(s)] # NULL /\ now < tokenExpiry[ConvOf(s)]))
    /\ [][\A c \in Conv :
            TokenCache(c)' # TokenCache(c)
                => \E s \in Slots :
                    /\ ConvOf(s) = c
                    /\ FromAuth(s)
                    /\ ResponseOk(lastResp'[s])
                    /\ bearerToken'[c] = lastResp'[s].items[1]
                    /\ tokenExpiry'[c] = now + TokenLifetime]_vars
    /\ [][\A s \in Slots :
            /\ ((FromAuth(s) /\ ~ResponseOk(lastResp'[s])) \/ FromData(s))
                    => TokenCache(ConvOf(s))' = TokenCache(ConvOf(s))
            /\ (pc[s] = "idle" /\ pc'[s] # "idle")
                    => IF bearerToken[ConvOf(s)] # NULL /\ now < tokenExpiry[ConvOf(s)]
                       THEN pc'[s] = "data" /\ Last(calls'[s]).tok = bearerToken[ConvOf(s)]
                       ELSE pc'[s] = "auth" /\ calls'[s] = <<AuthCall>>]_vars

\* C20 witness: an operation reused the cached token, its data request
\* failed, and the cache still holds the token, valid.
C20_Witness ==
    /\ Completed(1)
    /\ opErr[1].kind = "NexHealth API error"
    /\ CallsTo(calls[1], "POST /authenticates") = {}
    /\ bearerToken[1] = 1
    /\ now < tokenExpiry[1]


====
